---- MODULE Spec2Model ----
(***************************************************************************)
(* Model of the MCP tool servers of devlikebear/mcphost:                   *)
(*   - FetchServer        (fetchURL)                                       *)
(*   - GoogleSearchServer (searchGoogle, getApiStatus)                     *)
(*   - TimeServer         (getCurrentTime)                                 *)
(* Strings that the code inspects (prefix tests, emptiness tests, JSON     *)
(* decoding) are sequences of one-character strings, so that the tests are *)
(* computed as the code computes them.  Fixed messages are plain strings.  *)
(* A JSON number is a fixed-point value counted in halves (3 is 1.5).      *)
(***************************************************************************)
EXTENDS Integers, Sequences, FiniteSets, TLC

VARIABLES
    fs,       \* the FetchServer object of a fetch process (its configuration fields)
    gs,       \* the GoogleSearchServer object of a search process
    ts,       \* the TimeServer object of a time process
    pc,       \* "idle": no invocation in progress; "calling": the handler waits
              \* in client.Do; "done": a handler returned
    tool,     \* name of the tool the host invoked
    args,     \* req.Params.Arguments of the invocation
    params,   \* the handler's decoded params struct
    httpReq,  \* the outbound request handed to client.Do, if any
    calls,    \* number of client.Do calls made by the invocation
    resp,     \* what the network gave back to client.Do
    body,     \* bytes kept by io.ReadAll(io.LimitReader(resp.Body, maxBodySize))
    result,   \* the handler's *mcp.CallToolResult
    err,      \* the handler's error
    conv,     \* what convertTimeToTimezone returned to the handler, if called
    peer      \* a second invocation the host dispatched to the same server while
              \* the first is in progress: its position and its own locals

vars ==
    <<fs, gs, ts, pc, tool, args, params, httpReq, calls, resp, body, result, err, conv,
      peer>>

-----------------------------------------------------------------------------
(* Bounds of the model *)

\* largest max-body-size a server is constructed with
MaxCap == 5
\* largest number of entries of a searchGoogle argument map
MaxSearchArgs == 3
\* largest number of entries of a fetchURL argument map
MaxFetchArgs == 4
\* largest number of entries of a getCurrentTime argument map
MaxTimeArgs == 2

-----------------------------------------------------------------------------
(* Strings as character sequences *)

EmptyStr == <<>>
HttpPrefix == <<"h", "t", "t", "p", ":", "/", "/">>
HttpsPrefix == <<"h", "t", "t", "p", "s", ":", "/", "/">>

\* strings.HasPrefix
HasPrefix(s, prefix) ==
    /\ Len(s) >= Len(prefix)
    /\ SubSeq(s, 1, Len(prefix)) = prefix

-----------------------------------------------------------------------------
(* Loosely typed argument values, as the host protocol's JSON gives them *)

Str(s) == [t |-> "string", s |-> s, n |-> 0, b |-> FALSE]
Num(n) == [t |-> "number", s |-> EmptyStr, n |-> n, b |-> FALSE]
Bool(b) == [t |-> "bool", s |-> EmptyStr, n |-> 0, b |-> b]
Null == [t |-> "null", s |-> EmptyStr, n |-> 0, b |-> FALSE]

\* a whole number as a fixed-point value
Whole(k) == 2 * k

\* Go's int(float64): truncation toward zero
FloatToInt(x) == IF x >= 0 THEN x \div 2 ELSE -((-x) \div 2)

\* the argument maps over `fields` with at most `most` entries, the value of
\* field f drawn from vals[f]
ArgMaps(fields, vals, most) ==
    UNION { { m \in [S -> UNION { vals[f] : f \in S }] :
                \A f \in S : m[f] \in vals[f] } :
            S \in { T \in SUBSET fields : Cardinality(T) <= most } }

\* the value an argument map holds for a field; a missing key and a JSON null
\* both leave the struct field at its zero value
Supplied(m, f) == f \in DOMAIN m /\ m[f].t # "null"

-----------------------------------------------------------------------------
(* What the network gives back to client.Do *)

NoResponse == [kind |-> "none", status |-> 0, body |-> EmptyStr, readErr |-> FALSE]

\* client.Do returned an error: no connection, the client's Timeout expired or
\* the request's context was cancelled
TransportFailure == [kind |-> "error", status |-> 0, body |-> EmptyStr, readErr |-> FALSE]

\* status codes the upstream answers with
Statuses == {200, 201, 404}

\* response bodies the upstream sends: one character is one byte; "i" and "j"
\* stand for two elements of the items array, "s" for the searchInformation
\* member, "n" for the literal null, "<" for a body that is not JSON
Bodies ==
    { EmptyStr,
      <<"n">>,
      <<"{", "}">>,
      <<"{", "}", " ">>,
      <<"{", "i", "}">>,
      <<"{", "s", "i", "j", "}">>,
      <<"<">> }

\* client.Do fails (connection, DNS, timeout, cancelled context), or a response
\* arrives whose body either reads to its end or breaks with a stream error
\* (readErr: the stream breaks after the bytes of body have been delivered)
Responses ==
    { TransportFailure }
    \cup { [kind |-> "response", status |-> st, body |-> b, readErr |-> FALSE] :
             st \in Statuses, b \in Bodies }
    \cup { [kind |-> "response", status |-> st, body |-> b, readErr |-> TRUE] :
             st \in Statuses, b \in { EmptyStr, <<"{", "}">> } }

\* a faulty variant of DoCalls: a failed call is tried once more
DoCalls_Retry(r) == IF r.kind = "error" THEN 2 ELSE 1

\* how many times a handler calls client.Do when the network answers r: the
\* call is made once and whatever it returns ends the invocation
DoCalls(r) == 1

Min(a, b) == IF a <= b THEN a ELSE b

\* a faulty variant of LimitRead: one byte more than the cap is let through
LimitRead_OneMore(b, n) == IF n < 0 THEN EmptyStr ELSE SubSeq(b, 1, Min(Len(b), n + 1))

\* io.LimitReader(r, n) read to the end by io.ReadAll: a LimitedReader reports
\* EOF as soon as its remaining count is <= 0, so at most n bytes are returned
\* and none when n <= 0
LimitRead(b, n) == IF n <= 0 THEN EmptyStr ELSE SubSeq(b, 1, Min(Len(b), n))

\* the read of the body returns an error: the limited reader asks the stream
\* for more only while its count is positive, so a broken stream is noticed
\* only when the cap lies beyond the bytes delivered before the break
ReadFails(r, n) == r.readErr /\ n > Len(r.body)

-----------------------------------------------------------------------------
(* Errors and results *)

\* a Go error: its fixed message text, and what the message is formatted with
Error(msg, field, status, text) ==
    [msg |-> msg, field |-> field, status |-> status, text |-> text]

NoError == Error("", "", 0, EmptyStr)

NilResult == [kind |-> "nil"]

NoParams == [tool |-> "none"]

NoQuery ==
    [q |-> EmptyStr, key |-> EmptyStr, cx |-> EmptyStr, num |-> 0, start |-> 0,
     lr |-> <<>>, gl |-> <<>>, safe |-> ""]

NoRequest ==
    [sent |-> FALSE, method |-> EmptyStr, url |-> EmptyStr, query |-> NoQuery,
     header |-> <<>>, body |-> <<>>]

-----------------------------------------------------------------------------
(* Decoding of the argument map: json.Marshal, then json.Unmarshal into the   *)
(* handler's params struct.  Marshal writes the keys of a map in sorted order *)
(* (and cannot fail on a map that was itself decoded from JSON); Unmarshal    *)
(* ignores keys the struct does not name, leaves a field at its zero value    *)
(* when its key is missing or null, and reports the first value whose JSON    *)
(* type does not fit the field.  The argument names of the model are written  *)
(* as the struct tags write them.                                             *)

\* a faulty variant of Mismatches: a key the struct does not name is an error
\* too (a decoder with DisallowUnknownFields)
Mismatches_UnknownRejected(m, order, types) ==
    LET unknown == (DOMAIN m) \ { order[k] : k \in 1..Len(order) }
    IN  SelectSeq(order, LAMBDA f : Supplied(m, f) /\ m[f].t # types[f])
        \o (IF unknown # {} THEN << CHOOSE f \in unknown : TRUE >> ELSE <<>>)

\* the supplied fields, in key order, whose value has the wrong JSON type
Mismatches(m, order, types) ==
    SelectSeq(order, LAMBDA f : Supplied(m, f) /\ m[f].t # types[f])

\* the value decoded into a field
Decoded(m, f) == IF Supplied(m, f) THEN m[f] ELSE Null

-----------------------------------------------------------------------------
(* Time values.  An instant is a whole number of hours counted from           *)
(* 0001-01-01T00:00:00Z, the instant of the zero time.Time.  A timestamp text *)
(* is the RFC3339 text cut down to two parts: the wall-clock reading, as the  *)
(* decimal digits of its hour count, and the zone designator, "Z" or a sign   *)
(* followed by the decimal digits of the offset in hours: "14Z", "23+9".      *)

Digits == <<"0", "1", "2", "3", "4", "5", "6", "7", "8", "9">>

IsDigit(c) == \E d \in 1..10 : Digits[d] = c

DigitValue(c) == (CHOOSE d \in 1..10 : Digits[d] = c) - 1

AllDigits(s) == s # <<>> /\ \A k \in 1..Len(s) : IsDigit(s[k])

\* the number a run of decimal digits writes
RECURSIVE Atoi(_)
Atoi(s) ==
    IF s = <<>> THEN 0
    ELSE 10 * Atoi(SubSeq(s, 1, Len(s) - 1)) + DigitValue(s[Len(s)])

\* the decimal digits of n >= 0
RECURSIVE Itoa(_)
Itoa(n) ==
    IF n < 10 THEN << Digits[n + 1] >>
    ELSE Itoa(n \div 10) \o << Digits[(n % 10) + 1] >>

Abs(n) == IF n < 0 THEN -n ELSE n

\* a signed number: "-" and the digits of the magnitude
Signed(n) == (IF n < 0 THEN <<"-">> ELSE <<>>) \o Itoa(Abs(n))

UTCName == <<"U", "T", "C">>
LocalName == <<"L", "o", "c", "a", "l">>
SeoulName == <<"A", "s", "i", "a", "/", "S", "e", "o", "u", "l">>
NewYorkName ==
    <<"A", "m", "e", "r", "i", "c", "a", "/", "N", "e", "w", "_", "Y", "o", "r", "k">>
InvalidName ==
    <<"I", "n", "v", "a", "l", "i", "d", "/", "T", "i", "m", "e", "Z", "o", "n", "e">>

\* a *time.Location: the offset from UTC is std before the instant `from` and
\* dst from then on (a zone without a change has std = dst)
Location(name, std, dst, from) == [name |-> name, std |-> std, dst |-> dst, from |-> from]

UTC == Location(UTCName, 0, 0, 0)

\* time.FixedZone, as time.Parse makes one for a numeric offset
FixedZone(offset) == Location(EmptyStr, offset, offset, 0)

\* the zone database: Korea is at +9 all year, New York goes from -5 to -4 when
\* daylight saving time starts
Seoul == Location(SeoulName, 9, 9, 0)
NewYork == Location(NewYorkName, -5, -4, 40)

\* time.Local on a machine kept on Korean time
Local == Location(LocalName, 9, 9, 0)

\* the offset a location has at an instant
Offset(loc, instant) == IF instant >= loc.from THEN loc.dst ELSE loc.std

\* time.LoadLocation: "" and "UTC" are UTC, "Local" is time.Local, any other
\* name is looked up in the zone database
LoadLocation(name) ==
    IF name = EmptyStr \/ name = UTCName THEN [ok |-> TRUE, loc |-> UTC]
    ELSE IF name = LocalName THEN [ok |-> TRUE, loc |-> Local]
    ELSE IF name = SeoulName THEN [ok |-> TRUE, loc |-> Seoul]
    ELSE IF name = NewYorkName THEN [ok |-> TRUE, loc |-> NewYork]
    ELSE [ok |-> FALSE, loc |-> UTC]

\* a time.Time: an instant and the location it is read in
Time(instant, loc) == [instant |-> instant, loc |-> loc]

\* time.Time{}
ZeroTime == Time(0, UTC)

\* Time.IsZero
IsZero(t) == t.instant = 0

\* a faulty variant of In: the wall-clock reading is kept and relabelled with
\* the new zone, which moves the instant
In_KeepWall(t, loc) ==
    Time(t.instant + Offset(t.loc, t.instant) - Offset(loc, t.instant), loc)

\* Time.In: the same instant, read in another location
In(t, loc) == Time(t.instant, loc)

\* the wall-clock reading of a time
Wall(t) == t.instant + Offset(t.loc, t.instant)

\* the position of the zone designator of a timestamp text, 0 if there is none
Designator(text) ==
    LET at == { k \in 2..Len(text) : text[k] \in {"Z", "+", "-"} }
    IN  IF at = {} THEN 0 ELSE CHOOSE k \in at : \A j \in at : k <= j

\* time.Parse(time.RFC3339, text): the reading and the offset give the instant;
\* "Z" gives a time in UTC, a numeric offset a time in a fixed zone.  What the
\* fast RFC3339 path refuses is parsed again by the general layout parser,
\* whose range test lets an offset of 24 hours through.
ParseRFC3339(text) ==
    LET k == Designator(text)
        negative == k > 2 /\ text[1] = "-"
        digits == SubSeq(text, (IF negative THEN 2 ELSE 1), k - 1)
        wall == IF negative THEN -Atoi(digits) ELSE Atoi(digits)
        rest == SubSeq(text, k + 1, Len(text))
        offset == IF text[k] = "-" THEN -Atoi(rest) ELSE Atoi(rest)
        ok == /\ k > 0
              /\ AllDigits(digits)
              /\ IF text[k] = "Z" THEN rest = <<>>
                 ELSE AllDigits(rest) /\ Atoi(rest) <= 24
    IN  IF ~ok THEN [ok |-> FALSE, time |-> ZeroTime]
        ELSE IF text[k] = "Z" THEN [ok |-> TRUE, time |-> Time(wall, UTC)]
        ELSE [ok |-> TRUE, time |-> Time(wall - offset, FixedZone(offset))]

\* Time.Format(time.RFC3339): the reading in the time's location and that
\* location's offset, "Z" when the offset is zero
FormatRFC3339(t) ==
    LET offset == Offset(t.loc, t.instant)
    IN  Signed(Wall(t))
        \o (IF offset = 0 THEN <<"Z">>
            ELSE (IF offset < 0 THEN <<"-">> ELSE <<"+">>) \o Itoa(Abs(offset)))

\* what one call of convertTimeToTimezone returned
Conversion(timezone, time, e) ==
    [called |-> TRUE, timezone |-> timezone, time |-> time, err |-> e]

\* the invocation did not call convertTimeToTimezone
NoConversion == [called |-> FALSE, timezone |-> EmptyStr, time |-> ZeroTime, err |-> NoError]

-----------------------------------------------------------------------------
(* GoogleSearchServer *)

UserAgentSearch == <<"S", "A">>

\* NewGoogleSearchServer
NewGoogleSearchServer(timeout, userAgent, maxBodySize, apiKey, searchEngineID) ==
    [built |-> TRUE, timeout |-> timeout, userAgent |-> userAgent,
     maxBodySize |-> maxBodySize, apiKey |-> apiKey,
     searchEngineID |-> searchEngineID]

\* the process is not a search server
NoSearchServer ==
    [built |-> FALSE, timeout |-> 0, userAgent |-> EmptyStr, maxBodySize |-> 0,
     apiKey |-> EmptyStr, searchEngineID |-> EmptyStr]

ApiKeyMessage == "Error: API key is not configured. Please set the API_KEY environment variable or use the -api-key flag."
SearchEngineMessage == "Error: Search Engine ID is not configured. Please set the SEARCH_ENGINE_ID environment variable or use the -search-engine-id flag."
ConfiguredMessage == "Google Search API is properly configured and ready to use."

\* a faulty variant of StatusMsg: the two credentials are tested in the
\* opposite order
StatusMsg_IdFirst(s) ==
    IF s.searchEngineID = EmptyStr THEN SearchEngineMessage
    ELSE IF s.apiKey = EmptyStr THEN ApiKeyMessage
    ELSE ConfiguredMessage

\* handleApiStatus: the status message
StatusMsg(s) ==
    IF s.apiKey = EmptyStr THEN ApiKeyMessage
    ELSE IF s.searchEngineID = EmptyStr THEN SearchEngineMessage
    ELSE ConfiguredMessage

\* a faulty variant of ConfigError: the search-engine id is checked first
ConfigError_IdFirst(s) ==
    IF s.searchEngineID = EmptyStr
    THEN Error("Search Engine ID is not configured", "", 0, EmptyStr)
    ELSE IF s.apiKey = EmptyStr
         THEN Error("API key is not configured", "", 0, EmptyStr)
    ELSE NoError

\* a faulty variant of ConfigError: the search-engine id is not looked at
ConfigError_KeyOnly(s) ==
    IF s.apiKey = EmptyStr THEN Error("API key is not configured", "", 0, EmptyStr)
    ELSE NoError

\* handleGoogleSearch: the configuration check
ConfigError(s) ==
    IF s.apiKey = EmptyStr THEN Error("API key is not configured", "", 0, EmptyStr)
    ELSE IF s.searchEngineID = EmptyStr
         THEN Error("Search Engine ID is not configured", "", 0, EmptyStr)
    ELSE NoError

SearchFieldOrder == <<"country", "language", "num", "query", "safeSearch", "start">>

SearchFieldTypes ==
    [country |-> "string", language |-> "string", num |-> "number",
     query |-> "string", safeSearch |-> "bool", start |-> "number"]

\* the params struct of handleGoogleSearch after json.Unmarshal
SearchParams(m) ==
    [tool |-> "searchGoogle",
     Query |-> Decoded(m, "query").s,
     Num |-> Decoded(m, "num").n,
     Start |-> Decoded(m, "start").n,
     Language |-> Decoded(m, "language").s,
     Country |-> Decoded(m, "country").s,
     SafeSearch |-> Decoded(m, "safeSearch").b]

\* a faulty variant of EmptyQuery: the check is left out
EmptyQuery_Skipped(p) == FALSE

\* "Validate query"
EmptyQuery(p) == p.Query = EmptyStr

\* "Set defaults if not provided": params.Num
ClampNum(num) ==
    IF num <= Whole(0) THEN Whole(5)
    ELSE IF num > Whole(10) THEN Whole(10)
    ELSE num

\* params.Start
ClampStart(start) == IF start <= Whole(0) THEN Whole(1) ELSE start

LangPrefix == <<"l", "a", "n", "g", "_">>

\* the url.Values of the search call
SearchValues(s, p) ==
    [q |-> p.Query,
     key |-> s.apiKey,
     cx |-> s.searchEngineID,
     num |-> FloatToInt(ClampNum(p.Num)),
     start |-> FloatToInt(ClampStart(p.Start)),
     lr |-> IF p.Language # EmptyStr THEN << LangPrefix \o p.Language >> ELSE <<>>,
     gl |-> IF p.Country # EmptyStr THEN << p.Country >> ELSE <<>>,
     safe |-> IF p.SafeSearch THEN "active" ELSE "off"]

BaseURL == <<"h", "t", "t", "p", "s", ":", "/", "/", "g">>
MethodGET == <<"G", "E", "T">>
AcceptJSON == <<"j", "s", "o", "n">>

\* a faulty variant of SearchRequest: the User-Agent is left to the HTTP client
SearchRequest_ClientAgent(s, p) ==
    [sent |-> TRUE, method |-> MethodGET, url |-> BaseURL,
     query |-> SearchValues(s, p),
     header |-> [h \in {"User-Agent", "Accept"} |->
                    IF h = "User-Agent" THEN <<"G", "o">> ELSE AcceptJSON],
     body |-> <<>>]

\* the request of the search call, with its headers
SearchRequest(s, p) ==
    [sent |-> TRUE, method |-> MethodGET, url |-> BaseURL,
     query |-> SearchValues(s, p),
     header |-> [h \in {"User-Agent", "Accept"} |->
                    IF h = "User-Agent" THEN s.userAgent ELSE AcceptJSON],
     body |-> <<>>]

\* a faulty variant of ApiFailed: only client and server errors count
ApiFailed_From400(status) == status >= 400

\* resp.StatusCode != http.StatusOK
ApiFailed(status) == status # 200

IsSpace(c) == c = " "

RECURSIVE TrimLeft(_)
TrimLeft(b) == IF b # <<>> /\ IsSpace(Head(b)) THEN TrimLeft(Tail(b)) ELSE b

RECURSIVE TrimRight(_)
TrimRight(b) ==
    IF b # <<>> /\ IsSpace(b[Len(b)]) THEN TrimRight(SubSeq(b, 1, Len(b) - 1)) ELSE b

MemberChars == {"i", "j", "s"}
ItemChars == {"i", "j"}

\* json.Unmarshal(body, &apiResponse): the body must be exactly one JSON value
\* between optional white space, an object or null (which leaves apiResponse
\* at its zero value); the members of the object, or none
ParseApiResponse(b) ==
    LET t == TrimRight(TrimLeft(b))
        inner == SubSeq(t, 2, Len(t) - 1)
        object == /\ Len(t) >= 2
                  /\ t[1] = "{"
                  /\ t[Len(t)] = "}"
                  /\ \A k \in 1..Len(inner) : inner[k] \in MemberChars
    IN  [ok |-> object \/ t = <<"n">>,
         items |-> IF object THEN SelectSeq(inner, LAMBDA c : c \in ItemChars)
                   ELSE <<>>,
         info |-> object /\ \E k \in 1..Len(inner) : inner[k] = "s"]

\* the fields of an upstream item
Item(c) == [Title |-> <<"T", c>>, Link |-> <<"L", c>>, Snippet |-> <<"N", c>>]

\* a faulty variant of ExtractResults: the items are collected last to first
ExtractResults_Reversed(api) ==
    [k \in 1..Len(api.items) |-> Item(api.items[Len(api.items) + 1 - k])]

\* "Extract search results"
ExtractResults(api) == [k \in 1..Len(api.items) |-> Item(api.items[k])]

FormattedTotal == <<"9">>
FormattedTime == <<"1">>

\* "Generate response content": the text of the search report
SearchReport(p, api) ==
    LET results == ExtractResults(api)
    IN  [kind |-> "search",
         query |-> p.Query,
         total |-> IF api.info THEN FormattedTotal ELSE EmptyStr,
         time |-> IF api.info THEN FormattedTime ELSE EmptyStr,
         noResults |-> Len(results) = 0,
         entries |-> [k \in 1..Len(results) |->
                        [index |-> k, title |-> results[k].Title,
                         url |-> results[k].Link, snippet |-> results[k].Snippet]]]

\* what an invocation leaves behind
Outcome(p, q, n, r, b, res, e) ==
    [params |-> p, httpReq |-> q, calls |-> n, resp |-> r, body |-> b,
     result |-> res, err |-> e, conv |-> NoConversion]

\* a faulty variant of Failed: the failure is handed back as the text of a result
Failed_AsText(p, q, n, r, b, e) ==
    Outcome(p, q, n, r, b, [kind |-> "status", msg |-> e.msg], NoError)

\* a handler returns (nil, err)
Failed(p, q, n, r, b, e) == Outcome(p, q, n, r, b, NilResult, e)

\* handleGoogleSearch on server s with argument map m, the network answering r
GoogleSearch(s, m, r) ==
    LET bad == Mismatches(m, SearchFieldOrder, SearchFieldTypes)
        p == SearchParams(m)
        q == SearchRequest(s, p)
        b == LimitRead(r.body, s.maxBodySize)
        api == ParseApiResponse(b)
    IN  IF ConfigError(s) # NoError
        THEN Failed(NoParams, NoRequest, 0, NoResponse, EmptyStr, ConfigError(s))
        ELSE IF bad # <<>>
        THEN Failed(NoParams, NoRequest, 0, NoResponse, EmptyStr,
                    Error("invalid parameters", bad[1], 0, EmptyStr))
        ELSE IF EmptyQuery(p)
        THEN Failed(p, NoRequest, 0, NoResponse, EmptyStr,
                    Error("Search query cannot be empty", "", 0, EmptyStr))
        ELSE IF r.kind = "error"
        THEN Failed(p, q, DoCalls(r), r, EmptyStr, Error("request failed", "", 0, EmptyStr))
        ELSE IF ReadFails(r, s.maxBodySize)
        THEN Failed(p, q, DoCalls(r), r, EmptyStr,
                    Error("failed to read response body", "", 0, EmptyStr))
        ELSE IF ApiFailed(r.status)
        THEN Failed(p, q, DoCalls(r), r, b, Error("API error", "", r.status, b))
        ELSE IF ~api.ok
        THEN Failed(p, q, DoCalls(r), r, b, Error("failed to parse API response", "", 0, EmptyStr))
        ELSE Outcome(p, q, DoCalls(r), r, b, SearchReport(p, api), NoError)

-----------------------------------------------------------------------------
(* FetchServer *)

UserAgentFetch == <<"F", "A">>

\* NewFetchServer
NewFetchServer(timeout, userAgent, maxBodySize) ==
    [built |-> TRUE, timeout |-> timeout, userAgent |-> userAgent,
     maxBodySize |-> maxBodySize]

\* the process is not a fetch server
NoFetchServer ==
    [built |-> FALSE, timeout |-> 0, userAgent |-> EmptyStr, maxBodySize |-> 0]

FetchFieldOrder == <<"body", "contentType", "headers", "method", "url">>

FetchFieldTypes ==
    [body |-> "string", contentType |-> "string", headers |-> "string",
     method |-> "string", url |-> "string"]

\* the params struct of handleFetchURL after json.Unmarshal
FetchParams(m) ==
    [tool |-> "fetchURL",
     URL |-> Decoded(m, "url").s,
     Method |-> Decoded(m, "method").s,
     Body |-> Decoded(m, "body").s,
     ContentType |-> Decoded(m, "contentType").s,
     Headers |-> Decoded(m, "headers").s]

\* a faulty variant of ValidURL: only the scheme name is compared
ValidURL_SchemeOnly(url) == HasPrefix(url, <<"h", "t", "t", "p">>)

\* "Validate URL"
ValidURL(url) == HasPrefix(url, HttpPrefix) \/ HasPrefix(url, HttpsPrefix)

\* "Use GET as default method if not specified"
MethodOf(p) == IF p.Method = EmptyStr THEN MethodGET ELSE p.Method

MethodPOST == <<"P", "O", "S", "T">>
MethodPUT == <<"P", "U", "T">>
MethodPATCH == <<"P", "A", "T", "C", "H">>
MethodDELETE == <<"D", "E", "L", "E", "T", "E">>

\* the host part of a URL that passed ValidURL: what follows "//" up to the
\* first "/"
RECURSIVE UpToSlash(_)
UpToSlash(u) ==
    IF u = <<>> \/ Head(u) = "/" THEN <<>> ELSE <<Head(u)>> \o UpToSlash(Tail(u))

HostOf(url) ==
    UpToSlash(SubSeq(url, (IF HasPrefix(url, HttpsPrefix) THEN 9 ELSE 8), Len(url)))

\* http.NewRequestWithContext fails: the method is not a token, or the URL does
\* not parse (a space in the host name)
NewRequestFails(method, url) ==
    \/ \E k \in 1..Len(method) : IsSpace(method[k])
    \/ \E k \in 1..Len(HostOf(url)) : IsSpace(HostOf(url)[k])

\* a faulty variant of HeaderSet: a key that is already set keeps its value
HeaderSet_KeepFirst(h, key, value) ==
    [x \in (DOMAIN h) \cup {key} |-> IF x \in DOMAIN h THEN h[x] ELSE value]

\* http.Header.Set
HeaderSet(h, key, value) ==
    [x \in (DOMAIN h) \cup {key} |-> IF x = key THEN value ELSE h[x]]

NoHeader == [x \in {} |-> EmptyStr]

JSONContentType == <<"j", "s", "o", "n">>

\* a faulty variant of WithContentType: the default is set for a body sent with
\* any method
WithContentType_AnyMethod(h, p) ==
    IF p.ContentType # EmptyStr
    THEN HeaderSet(h, "Content-Type", p.ContentType)
    ELSE IF p.Body # EmptyStr
         THEN HeaderSet(h, "Content-Type", JSONContentType)
    ELSE h

\* "Set Content-Type if provided"
WithContentType(h, p) ==
    IF p.ContentType # EmptyStr
    THEN HeaderSet(h, "Content-Type", p.ContentType)
    ELSE IF /\ p.Body # EmptyStr
            /\ MethodOf(p) \in {MethodPOST, MethodPUT, MethodPATCH}
         THEN HeaderSet(h, "Content-Type", JSONContentType)
    ELSE h

\* The headers argument is JSON text.  One character of the model is one token:
\* "{" and "}", "n" for the literal null, and one letter per member of the
\* object: "X" is "X-Custom-Header":"v", "U" is "User-Agent":"c", "u" is
\* "user-agent":"d", "C" is "Content-Type":"c", "1" is a member whose value is
\* a number.
HeaderMembers == {"X", "U", "u", "C"}

\* the key Header.Set stores a member under: the canonical form of its name
HeaderKey(c) ==
    CASE c = "X" -> "X-Custom-Header"
      [] c \in {"U", "u"} -> "User-Agent"
      [] OTHER -> "Content-Type"

HeaderValue(c) == <<"c", c>>

\* a faulty variant of ParseHeaders: the values of the members are not checked
\* to be strings
ParseHeaders_AnyValue(text) ==
    LET t == TrimRight(TrimLeft(text))
        inner == SubSeq(t, 2, Len(t) - 1)
        object == /\ Len(t) >= 2
                  /\ t[1] = "{"
                  /\ t[Len(t)] = "}"
                  /\ \A k \in 1..Len(inner) : inner[k] \in HeaderMembers \cup {"1"}
    IN  [ok |-> object \/ t = <<"n">>,
         members |-> IF object THEN inner ELSE <<>>]

\* json.Unmarshal([]byte(params.Headers), &headers) into a map[string]string:
\* null decodes to the nil map without an error
ParseHeaders(text) ==
    LET t == TrimRight(TrimLeft(text))
        inner == SubSeq(t, 2, Len(t) - 1)
        object == /\ Len(t) >= 2
                  /\ t[1] = "{"
                  /\ t[Len(t)] = "}"
                  /\ \A k \in 1..Len(inner) : inner[k] \in HeaderMembers
    IN  [ok |-> object \/ t = <<"n">>,
         members |-> IF object THEN inner ELSE <<>>]

\* "Add custom headers if provided": Header.Set of every member
RECURSIVE SetAll(_, _)
SetAll(h, members) ==
    IF members = <<>> THEN h
    ELSE SetAll(HeaderSet(h, HeaderKey(Head(members)), HeaderValue(Head(members))),
                Tail(members))

\* the orders in which `range headers` may visit the members of the decoded
\* map: Go leaves the iteration order of a map unspecified
RangeOrders(members) ==
    { [k \in 1..Len(members) |-> members[f[k]]] :
        f \in { g \in [1..Len(members) -> 1..Len(members)] :
                  \A i, j \in 1..Len(members) : g[i] = g[j] => i = j } }

\* the outbound request of handleFetchURL with all its headers set, the custom
\* headers visited in the given order
FetchRequest(s, p, order) ==
    [sent |-> TRUE, method |-> MethodOf(p), url |-> p.URL, query |-> NoQuery,
     header |-> SetAll(WithContentType(HeaderSet(NoHeader, "User-Agent", s.userAgent), p),
                       order),
     body |-> IF p.Body # EmptyStr THEN << p.Body >> ELSE <<>>]

\* the text of the fetch report: "Response from <url> (status: <code>):" and the
\* indented JSON of the response details
FetchReport(p, r, b) ==
    [kind |-> "fetch",
     url |-> p.URL,
     status |-> r.status,
     details |-> [status_code |-> r.status, body |-> b, url |-> p.URL,
                  method |-> MethodOf(p)]]

\* a faulty variant of FetchFinish: a status other than 200 is an error, as in
\* the search handler
FetchFinish_StatusChecked(p, q, r, b) ==
    IF r.status # 200
    THEN Failed(p, q, DoCalls(r), r, b, Error("API error", "", r.status, b))
    ELSE Outcome(p, q, DoCalls(r), r, b, FetchReport(p, r, b), NoError)

\* the end of handleFetchURL, once the body is read: the report is the result
\* whatever the status code
FetchFinish(p, q, r, b) == Outcome(p, q, DoCalls(r), r, b, FetchReport(p, r, b), NoError)

\* handleFetchURL on server s with argument map m, the network answering r, the
\* custom headers visited in the given order
FetchURL(s, m, r, order) ==
    LET bad == Mismatches(m, FetchFieldOrder, FetchFieldTypes)
        p == FetchParams(m)
        q == FetchRequest(s, p, order)
        b == LimitRead(r.body, s.maxBodySize)
    IN  IF bad # <<>>
        THEN Failed(NoParams, NoRequest, 0, NoResponse, EmptyStr,
                    Error("invalid parameters", bad[1], 0, EmptyStr))
        ELSE IF ~ValidURL(p.URL)
        THEN Failed(p, NoRequest, 0, NoResponse, EmptyStr,
                    Error("URL must begin with http:// or https://", "", 0, EmptyStr))
        ELSE IF NewRequestFails(MethodOf(p), p.URL)
        THEN Failed(p, NoRequest, 0, NoResponse, EmptyStr,
                    Error("failed to create request", "", 0, EmptyStr))
        ELSE IF p.Headers # EmptyStr /\ ~ParseHeaders(p.Headers).ok
        THEN Failed(p, NoRequest, 0, NoResponse, EmptyStr,
                    Error("invalid headers JSON", "", 0, EmptyStr))
        ELSE IF r.kind = "error"
        THEN Failed(p, q, DoCalls(r), r, EmptyStr, Error("request failed", "", 0, EmptyStr))
        ELSE IF ReadFails(r, s.maxBodySize)
        THEN Failed(p, q, DoCalls(r), r, EmptyStr,
                    Error("failed to read response body", "", 0, EmptyStr))
        ELSE FetchFinish(p, q, r, b)

-----------------------------------------------------------------------------
(* TimeServer *)

\* NewTimeServer: the default timezone is stored as given, it is not looked up
NewTimeServer(defaultTimezone) == [built |-> TRUE, defaultTimezone |-> defaultTimezone]

\* the process is not a time server
NoTimeServer == [built |-> FALSE, defaultTimezone |-> EmptyStr]

TimeFieldOrder == <<"timeStr", "timezone">>

TimeFieldTypes == [timeStr |-> "string", timezone |-> "string"]

\* the params struct of handleGetCurrentTime after json.Unmarshal
TimeParams(m) ==
    [tool |-> "getCurrentTime",
     Timezone |-> Decoded(m, "timezone").s,
     TimeStr |-> Decoded(m, "timeStr").s]

\* a faulty variant of TimezoneOf: the server default is used whenever it is set
TimezoneOf_DefaultFirst(s, requestedTimezone) ==
    IF s.defaultTimezone # EmptyStr THEN s.defaultTimezone ELSE requestedTimezone

\* "Set timezone": the requested one, the server default if it is empty
TimezoneOf(s, requestedTimezone) ==
    IF requestedTimezone = EmptyStr THEN s.defaultTimezone ELSE requestedTimezone

InvalidTimezoneMessage == "invalid timezone"
InvalidTimeMessage == "invalid time format (expected RFC3339, e.g. 2025-04-06T14:30:00Z)"

\* a faulty variant of convertTimeToTimezone: a timestamp that does not parse
\* is reported together with the name of the timezone that was loaded
convertTimeToTimezone_NameOnError(s, timeStr, requestedTimezone, now) ==
    LET timezone == TimezoneOf(s, requestedTimezone)
        loaded == LoadLocation(timezone)
        parsed == ParseRFC3339(timeStr)
    IN  IF ~loaded.ok
        THEN Conversion(EmptyStr, ZeroTime,
                        Error(InvalidTimezoneMessage, "", 0, timezone))
        ELSE IF timeStr = EmptyStr
        THEN Conversion(timezone, In(now, loaded.loc), NoError)
        ELSE IF ~parsed.ok
        THEN Conversion(timezone, ZeroTime, Error(InvalidTimeMessage, "", 0, timeStr))
        ELSE Conversion(timezone, In(parsed.time, loaded.loc), NoError)

\* a faulty variant of convertTimeToTimezone: the timestamp is parsed before the
\* timezone is loaded
convertTimeToTimezone_ParseFirst(s, timeStr, requestedTimezone, now) ==
    LET timezone == TimezoneOf(s, requestedTimezone)
        loaded == LoadLocation(timezone)
        parsed == ParseRFC3339(timeStr)
    IN  IF timeStr # EmptyStr /\ ~parsed.ok
        THEN Conversion(EmptyStr, ZeroTime, Error(InvalidTimeMessage, "", 0, timeStr))
        ELSE IF ~loaded.ok
        THEN Conversion(EmptyStr, ZeroTime,
                        Error(InvalidTimezoneMessage, "", 0, timezone))
        ELSE IF timeStr = EmptyStr
        THEN Conversion(timezone, In(now, loaded.loc), NoError)
        ELSE Conversion(timezone, In(parsed.time, loaded.loc), NoError)

\* convertTimeToTimezone, time.Now() reading `now`
convertTimeToTimezone(s, timeStr, requestedTimezone, now) ==
    LET timezone == TimezoneOf(s, requestedTimezone)
        loaded == LoadLocation(timezone)
        parsed == ParseRFC3339(timeStr)
    IN  IF ~loaded.ok
        THEN Conversion(EmptyStr, ZeroTime,
                        Error(InvalidTimezoneMessage, "", 0, timezone))
        ELSE IF timeStr = EmptyStr
        THEN Conversion(timezone, In(now, loaded.loc), NoError)
        ELSE IF ~parsed.ok
        THEN Conversion(EmptyStr, ZeroTime, Error(InvalidTimeMessage, "", 0, timeStr))
        ELSE Conversion(timezone, In(parsed.time, loaded.loc), NoError)

\* a faulty variant of ResultLabel: the label follows the timezone argument
ResultLabel_ByTimezone(p) ==
    IF p.Timezone = EmptyStr THEN "Current time" ELSE "Converted time"

\* "Create result message": which sentence the time is reported in
ResultLabel(p) == IF p.TimeStr = EmptyStr THEN "Current time" ELSE "Converted time"

\* the text of the time report: "<label> (<timezone>): <RFC3339>"
TimeReport(p, c) ==
    [kind |-> "time", label |-> ResultLabel(p), timezone |-> c.timezone,
     stamp |-> FormatRFC3339(c.time)]

\* handleGetCurrentTime on server s with argument map m, time.Now() reading now
GetCurrentTime(s, m, now) ==
    LET bad == Mismatches(m, TimeFieldOrder, TimeFieldTypes)
        p == TimeParams(m)
        c == convertTimeToTimezone(s, p.TimeStr, p.Timezone, now)
    IN  IF bad # <<>>
        THEN Failed(NoParams, NoRequest, 0, NoResponse, EmptyStr,
                    Error("invalid parameters", bad[1], 0, EmptyStr))
        ELSE IF c.err # NoError
        THEN [Failed(p, NoRequest, 0, NoResponse, EmptyStr, c.err) EXCEPT !.conv = c]
        ELSE [Outcome(p, NoRequest, 0, NoResponse, EmptyStr, TimeReport(p, c), NoError)
                EXCEPT !.conv = c]

-----------------------------------------------------------------------------
(* Inputs: construction parameters and invocations *)

\* -max-body-size values: a negative one, zero, one that cuts the longer bodies
\* and one that cuts none
Caps == {-1, 0, 2, MaxCap}

\* -timeout values (seconds)
Timeouts == {30}

\* -api-key / -search-engine-id values
Credentials == { EmptyStr, <<"k">> }

FetchServers == { NewFetchServer(t, UserAgentFetch, c) : t \in Timeouts, c \in Caps }

SearchServers ==
    { NewGoogleSearchServer(t, UserAgentSearch, c, k, e) :
        t \in Timeouts, c \in Caps, k \in Credentials, e \in Credentials }

UrlA == HttpPrefix \o <<"a">>
UrlSecure == HttpsPrefix \o <<"a">>
UrlFtp == <<"f", "t", "p", ":", "/", "/", "a">>
UrlBare == <<"a">>
UrlNoSlash == <<"h", "t", "t", "p", ":", "a">>
UrlUpper == <<"H", "T", "T", "P", ":", "/", "/", "a">>
UrlSpace == HttpPrefix \o <<" ">>

FetchFields == {"url", "method", "body", "contentType", "headers", "extra"}

FetchArgValues ==
    [url |-> { Str(EmptyStr), Str(UrlA), Str(UrlSecure), Str(UrlFtp), Str(UrlBare),
               Str(UrlNoSlash), Str(UrlUpper), Str(UrlSpace), Num(Whole(1)) },
     method |-> { Str(EmptyStr), Str(MethodGET), Str(MethodPOST), Str(MethodPUT),
                  Str(MethodDELETE), Str(<<"p", "o", "s", "t">>), Str(<<"G", " ">>),
                  Num(Whole(1)) },
     body |-> { Str(EmptyStr), Str(<<"b">>) },
     contentType |-> { Str(EmptyStr), Str(<<"t">>) },
     headers |-> { Str(EmptyStr), Str(<<"{">>), Str(<<"n">>), Str(<<"{", "1", "}">>),
                   Str(<<"{", "X", "}">>), Str(<<"{", "U", "C", "}">>),
                   Str(<<"{", "U", "u", "}">>) },
     extra |-> { Str(<<"x">>) }]

FetchArgMaps == ArgMaps(FetchFields, FetchArgValues, MaxFetchArgs)

SearchFields == {"query", "num", "start", "language", "country", "safeSearch", "extra"}

\* num and start are fixed-point: 1 is 0.5, 2 is 1, 5 is 2.5, 20 is 10, 21 is 10.5
SearchArgValues ==
    [query |-> { Str(EmptyStr), Str(<<"q">>), Num(Whole(1)) },
     num |-> { Num(n) : n \in {-2, 0, 1, 2, 5, 20, 21, 24} } \cup { Str(<<"5">>) },
     start |-> { Num(n) : n \in {-2, 0, 1, 2, 3, 22} },
     language |-> { Str(EmptyStr), Str(<<"k", "o">>) },
     country |-> { Str(EmptyStr), Str(<<"k", "r">>) },
     safeSearch |-> { Bool(TRUE), Bool(FALSE) },
     extra |-> { Str(<<"x">>) }]

SearchArgMaps == ArgMaps(SearchFields, SearchArgValues, MaxSearchArgs)

\* getApiStatus takes no arguments; the host may still pass some
StatusArgMaps == ArgMaps({"extra", "query"}, SearchArgValues, MaxSearchArgs)

\* -timezone values: the flag's default, and what an operator may pass instead
TimeServers == { NewTimeServer(z) : z \in {SeoulName, UTCName, EmptyStr, InvalidName} }

\* readings of time.Now(), in hours: the clock of a running machine is far
\* from the zero instant
Clock == {30, 50}

TimeFields == {"timezone", "timeStr", "extra"}

TimeArgValues ==
    [timezone |-> { Str(EmptyStr), Str(UTCName), Str(SeoulName), Str(NewYorkName),
                    Str(InvalidName), Num(Whole(1)), Null },
     timeStr |-> { Str(EmptyStr), Str(<<"0", "Z">>), Str(<<"1", "4", "Z">>),
                   Str(<<"1", "4", "+", "9">>), Str(<<"4", "5", "-", "5">>),
                   Str(<<"1", "4", "+", "0">>), Str(<<"1", "4", "+", "2", "4">>),
                   Str(<<"1", "4", "+", "2", "5">>), Str(<<"1", "4">>),
                   Str(<<"1", "/", "4", "Z">>), Num(Whole(1)) },
     extra |-> { Str(<<"x">>) }]

TimeArgMaps == ArgMaps(TimeFields, TimeArgValues, MaxTimeArgs)

-----------------------------------------------------------------------------
(* The state machine *)

\* no second invocation
NoPeer ==
    [pc |-> "idle", tool |-> "", args |-> <<>>, httpReq |-> NoRequest,
     resp |-> NoResponse, result |-> NilResult, err |-> NoError]

Idle ==
    /\ peer = NoPeer
    /\ pc = "idle"
    /\ tool = ""
    /\ args = <<>>
    /\ params = NoParams
    /\ httpReq = NoRequest
    /\ calls = 0
    /\ resp = NoResponse
    /\ body = EmptyStr
    /\ result = NilResult
    /\ err = NoError
    /\ conv = NoConversion

\* a faulty variant of ServerAfter: the handler keeps the User-Agent of the
\* request it sent in the server's userAgent field
ServerAfter_AgentKept(s, q) ==
    IF q.sent /\ "userAgent" \in DOMAIN s
    THEN [s EXCEPT !.userAgent = q.header["User-Agent"]]
    ELSE s

\* the server object after a handler that built request q ran on it: the
\* handlers read the fields of s and assign none
ServerAfter(s, q) == s

\* the handler returned outcome o for tool t invoked with m
Returns(t, m, o) ==
    /\ pc' = "done"
    /\ tool' = t
    /\ args' = m
    /\ params' = o.params
    /\ httpReq' = o.httpReq
    /\ calls' = o.calls
    /\ resp' = o.resp
    /\ body' = o.body
    /\ result' = o.result
    /\ err' = o.err
    /\ conv' = o.conv
    /\ fs' = ServerAfter(fs, o.httpReq)
    /\ gs' = ServerAfter(gs, o.httpReq)
    /\ ts' = ServerAfter(ts, o.httpReq)
    /\ peer' = peer

\* the handler built request o.httpReq and waits in s.client.Do for the network
Calls(t, m, o) ==
    /\ pc' = "calling"
    /\ tool' = t
    /\ args' = m
    /\ params' = o.params
    /\ httpReq' = o.httpReq
    /\ calls' = 0
    /\ resp' = NoResponse
    /\ body' = EmptyStr
    /\ result' = NilResult
    /\ err' = NoError
    /\ conv' = NoConversion
    /\ UNCHANGED <<fs, gs, ts, peer>>

\* handleFetchURL up to s.client.Do: it returns at once when the arguments are
\* refused, and waits for the network otherwise
handleFetchURL ==
    /\ pc = "idle"
    /\ fs.built
    /\ \E m \in FetchArgMaps :
          \E order \in RangeOrders(ParseHeaders(FetchParams(m).Headers).members) :
             LET o == FetchURL(fs, m, TransportFailure, order)
             IN  IF o.httpReq.sent
                 THEN Calls("fetchURL", m, o)
                 ELSE Returns("fetchURL", m, o)

\* handleGoogleSearch up to s.client.Do
handleGoogleSearch ==
    /\ pc = "idle"
    /\ gs.built
    /\ \E m \in SearchArgMaps :
          LET o == GoogleSearch(gs, m, TransportFailure)
          IN  IF o.httpReq.sent
              THEN Calls("searchGoogle", m, o)
              ELSE Returns("searchGoogle", m, o)

\* the server an invocation ran on
ServerOf(t) == IF t = "fetchURL" THEN fs ELSE gs

\* the rest of the waiting handler, from the return of s.client.Do with r
Resumes(r) ==
    IF tool = "fetchURL"
    THEN \E order \in RangeOrders(ParseHeaders(params.Headers).members) :
            /\ FetchRequest(fs, params, order) = httpReq
            /\ Returns(tool, args, FetchURL(fs, args, r, order))
    ELSE Returns(tool, args, GoogleSearch(gs, args, r))

\* the network answers the call, or fails it
clientDo ==
    /\ pc = "calling"
    /\ \E r \in Responses : Resumes(r)

\* whether the http.Client of s ends a call by itself: Timeout is
\* time.Duration(timeout) * time.Second, and a Timeout of zero or less sets no
\* deadline
ClientDeadline(s) == s.timeout > 0

\* the client's Timeout expires on a call still waiting: client.Do returns an error
clientTimeout ==
    /\ pc = "calling"
    /\ ClientDeadline(ServerOf(tool))
    /\ Resumes(TransportFailure)

\* the host cancels the context the request was built with
\* (http.NewRequestWithContext(ctx, ...)): client.Do returns an error
ctxCancel ==
    /\ pc = "calling"
    /\ Resumes(TransportFailure)

\* handleApiStatus
ApiStatus(s, m) ==
    Outcome(NoParams, NoRequest, 0, NoResponse, EmptyStr,
            [kind |-> "status", msg |-> StatusMsg(s)], NoError)

handleApiStatus ==
    /\ pc = "idle"
    /\ gs.built
    /\ \E m \in StatusArgMaps : Returns("getApiStatus", m, ApiStatus(gs, m))

handleGetCurrentTime ==
    /\ pc = "idle"
    /\ ts.built
    /\ \E m \in TimeArgMaps, now \in Clock :
          Returns("getCurrentTime", m, GetCurrentTime(ts, m, Time(now, Local)))

\* the host takes the result; the invocation's locals are gone
Return ==
    /\ pc = "done"
    /\ pc' = "idle"
    /\ tool' = ""
    /\ args' = <<>>
    /\ params' = NoParams
    /\ httpReq' = NoRequest
    /\ calls' = 0
    /\ resp' = NoResponse
    /\ body' = EmptyStr
    /\ result' = NilResult
    /\ err' = NoError
    /\ conv' = NoConversion
    /\ UNCHANGED <<fs, gs, ts, peer>>

InitFetch ==
    /\ fs \in FetchServers
    /\ gs = NoSearchServer
    /\ ts = NoTimeServer
    /\ Idle

NextFetch == handleFetchURL \/ clientDo \/ clientTimeout \/ ctxCancel \/ Return

SpecFetch == InitFetch /\ [][NextFetch]_vars

InitSearch ==
    /\ fs = NoFetchServer
    /\ gs \in SearchServers
    /\ ts = NoTimeServer
    /\ Idle

NextSearch ==
    handleGoogleSearch \/ handleApiStatus \/ clientDo \/ clientTimeout \/ ctxCancel
    \/ Return

SpecSearch == InitSearch /\ [][NextSearch]_vars

InitTime ==
    /\ fs = NoFetchServer
    /\ gs = NoSearchServer
    /\ ts \in TimeServers
    /\ Idle

NextTime == handleGetCurrentTime \/ Return

SpecTime == InitTime /\ [][NextTime]_vars

\* a process is one server: main() of each program constructs its server once
Init == InitFetch \/ InitSearch \/ InitTime

Next ==
    handleFetchURL \/ handleGoogleSearch \/ handleApiStatus \/ handleGetCurrentTime
    \/ clientDo \/ clientTimeout \/ ctxCancel \/ Return

Spec == Init /\ [][Next]_vars

\* what the host passes to the second invocation (arguments one tool sends out
\* and the other refuses), and what the network gives it
PeerArgMaps ==
    { [url |-> Str(UrlA), headers |-> Str(<<"{", "U", "C", "}">>)],
      [query |-> Str(<<"q">>)] }

PeerResponses ==
    { TransportFailure,
      [kind |-> "response", status |-> 200, body |-> <<"{", "i", "}">>, readErr |-> FALSE] }

\* what handler t makes of arguments m and answer r on the server as it is: one
\* outcome for each order in which the custom headers may be ranged over
Handled(t, m, r) ==
    IF t = "fetchURL"
    THEN { FetchURL(fs, m, r, order) :
             order \in RangeOrders(ParseHeaders(FetchParams(m).Headers).members) }
    ELSE { GoogleSearch(gs, m, r) }

\* the second invocation is at position p with the locals of outcome o
PeerAt(p, t, m, o) ==
    /\ peer' = [pc |-> p, tool |-> t, args |-> m, httpReq |-> o.httpReq,
                resp |-> o.resp, result |-> o.result, err |-> o.err]
    /\ fs' = ServerAfter(fs, o.httpReq)
    /\ gs' = ServerAfter(gs, o.httpReq)
    /\ ts' = ServerAfter(ts, o.httpReq)
    /\ UNCHANGED <<pc, tool, args, params, httpReq, calls, resp, body, result, err, conv>>

\* the handler of the server's tool starts in a second goroutine and runs up to
\* s.client.Do
peerHandle ==
    /\ peer.pc = "idle"
    /\ \E t \in {"fetchURL", "searchGoogle"}, m \in PeerArgMaps :
          /\ ServerOf(t).built
          /\ \E o \in Handled(t, m, TransportFailure) :
                IF o.httpReq.sent
                THEN /\ peer' = [NoPeer EXCEPT !.pc = "calling", !.tool = t, !.args = m,
                                               !.httpReq = o.httpReq]
                     /\ UNCHANGED <<fs, gs, ts, pc, tool, args, params, httpReq, calls,
                                    resp, body, result, err, conv>>
                ELSE PeerAt("done", t, m, o)

\* s.client.Do of the second invocation returns (an answer, a failure, the
\* timeout or a cancellation) and its handler runs to its end
peerDo ==
    /\ peer.pc = "calling"
    /\ \E r \in PeerResponses :
          \E o \in Handled(peer.tool, peer.args, r) :
             /\ o.httpReq = peer.httpReq
             /\ PeerAt("done", peer.tool, peer.args, o)

\* the host takes the result of the second invocation
peerReturn ==
    /\ peer.pc = "done"
    /\ peer' = NoPeer
    /\ UNCHANGED <<fs, gs, ts, pc, tool, args, params, httpReq, calls, resp, body,
                   result, err, conv>>

\* one fetch or one configured search process
InitConcurrent ==
    /\ \/ /\ fs = NewFetchServer(30, UserAgentFetch, MaxCap)
          /\ gs = NoSearchServer
       \/ /\ fs = NoFetchServer
          /\ gs = NewGoogleSearchServer(30, UserAgentSearch, MaxCap, <<"k">>, <<"k">>)
    /\ ts = NoTimeServer
    /\ Idle

\* the host dispatches invocations as they come, a second one while the first
\* is in progress
NextConcurrent ==
    handleFetchURL \/ handleGoogleSearch \/ clientDo \/ clientTimeout \/ ctxCancel
    \/ Return \/ peerHandle \/ peerDo \/ peerReturn

SpecConcurrent == InitConcurrent /\ [][NextConcurrent]_vars

\* -timeout values the flag parser and the constructors take: any int, the
\* default 30 among them
AnyTimeouts == {-1, 0, 30}

\* a fetch or a search process started with any -timeout, the search one with
\* both credentials
InitTimeouts ==
    /\ \/ /\ fs \in { NewFetchServer(t, UserAgentFetch, MaxCap) : t \in AnyTimeouts }
          /\ gs = NoSearchServer
       \/ /\ fs = NoFetchServer
          /\ gs \in { NewGoogleSearchServer(t, UserAgentSearch, MaxCap, <<"k">>, <<"k">>) :
                         t \in AnyTimeouts }
    /\ ts = NoTimeServer
    /\ Idle

NextTimeouts ==
    handleFetchURL \/ handleGoogleSearch \/ clientDo \/ clientTimeout \/ ctxCancel
    \/ Return

\* the runtime fires the timer of a client that has a deadline; nothing makes the
\* upstream answer or the host cancel
SpecTimeouts == InitTimeouts /\ [][NextTimeouts]_vars /\ WF_vars(clientTimeout)

-----------------------------------------------------------------------------
(* Properties *)

Done(t) == pc = "done" /\ tool = t

Max(a, b) == IF a >= b THEN a ELSE b

\* the failure classes of the design, by message
InvalidParameters(e) ==
    e.msg \in { "invalid parameters", "URL must begin with http:// or https://",
                "Search query cannot be empty", "invalid headers JSON" }

MissingConfiguration(e) ==
    e.msg \in { "API key is not configured", "Search Engine ID is not configured" }

UpstreamError(e) == e.msg = "API error"

\* the url argument is a string that starts with http:// or https://
UrlArgStartsHttp(m) ==
    /\ "url" \in DOMAIN m
    /\ m["url"].t = "string"
    /\ (HasPrefix(m["url"].s, HttpPrefix) \/ HasPrefix(m["url"].s, HttpsPrefix))

\* every supplied argument the handler's struct names has the JSON type of its
\* field (or is null)
WellTyped(m, types) ==
    \A f \in (DOMAIN m) \cap (DOMAIN types) : m[f].t \in {types[f], "null"}

\* C1 as stated: a fetchURL invocation whose url argument does not start with
\* http:// or https:// (missing and empty included) returns the error "URL must
\* begin with http:// or https://", no result, and makes no network call.
C1_Original ==
    Done("fetchURL") /\ ~UrlArgStartsHttp(args) =>
        /\ err.msg = "URL must begin with http:// or https://"
        /\ result.kind = "nil"
        /\ calls = 0

\* C1 amended: such an invocation returns an error, no result, and makes no
\* network call; the error is "URL must begin with http:// or https://" when
\* every supplied argument is a string (or null), and the decoding error
\* "invalid parameters" otherwise.
C1_InvalidURL ==
    Done("fetchURL") /\ ~UrlArgStartsHttp(args) =>
        /\ result.kind = "nil"
        /\ calls = 0
        /\ ~httpReq.sent
        /\ err.msg = IF WellTyped(args, FetchFieldTypes)
                     THEN "URL must begin with http:// or https://"
                     ELSE "invalid parameters"

C1_Witness ==
    /\ Done("fetchURL")
    /\ "url" \in DOMAIN args
    /\ "method" \in DOMAIN args
    /\ args["url"] = Str(UrlFtp)
    /\ err.msg = "URL must begin with http:// or https://"

\* the query argument is the empty string
QueryArgEmpty(m) == "query" \in DOMAIN m /\ m["query"] = Str(EmptyStr)

Configured(s) == s.apiKey # EmptyStr /\ s.searchEngineID # EmptyStr

\* C2 as stated: a searchGoogle invocation whose query is the empty string ends,
\* on any server configuration and with any other arguments, in the error
\* "Search query cannot be empty", and no network call is made.
C2_Original ==
    Done("searchGoogle") /\ QueryArgEmpty(args) =>
        /\ err.msg = "Search query cannot be empty"
        /\ result.kind = "nil"
        /\ calls = 0

\* C2 amended: such an invocation returns an error, no result, and makes no
\* network call on every configuration and with any other arguments; the error
\* is "Search query cannot be empty" when both credentials are set and every
\* other supplied argument has the JSON type of its field.
C2_EmptyQuery ==
    Done("searchGoogle") /\ QueryArgEmpty(args) =>
        /\ result.kind = "nil"
        /\ err # NoError
        /\ calls = 0
        /\ ~httpReq.sent
        /\ (Configured(gs) /\ WellTyped(args, SearchFieldTypes) =>
               err.msg = "Search query cannot be empty")

C2_Witness ==
    /\ Done("searchGoogle")
    /\ QueryArgEmpty(args)
    /\ "num" \in DOMAIN args
    /\ err.msg = "Search query cannot be empty"

\* the number an argument holds: the zero value when it is missing
NumberArg(m, f) == IF f \in DOMAIN m /\ m[f].t = "number" THEN m[f].n ELSE 0

\* C3 as stated: the num parameter of the outbound search call is an integer in
\* [1,10]: 5 when the argument is <= 0 (or absent), 10 when it is > 10, and the
\* argument itself (its integer part) when it is in range.
C3_Original ==
    Done("searchGoogle") /\ httpReq.sent =>
        LET n == NumberArg(args, "num")
            sent == httpReq.query.num
        IN  /\ sent \in 1..10
            /\ (n <= Whole(0) => sent = 5)
            /\ (n > Whole(10) => sent = 10)
            /\ (n >= Whole(1) /\ n <= Whole(10) => sent = n \div 2)

\* C4 as stated: the start parameter of the outbound search call is an integer
\* >= 1, and is 1 when the argument is <= 0 (or absent).
C4_Original ==
    Done("searchGoogle") /\ httpReq.sent =>
        LET n == NumberArg(args, "start")
            sent == httpReq.query.start
        IN  /\ sent >= 1
            /\ (n <= Whole(0) => sent = 1)

\* C5: when the API key or the search-engine id is empty, every searchGoogle
\* invocation fails with a missing-configuration error, no request is built and
\* no network call is made.
C5_MissingConfiguration ==
    Done("searchGoogle") /\ (gs.apiKey = EmptyStr \/ gs.searchEngineID = EmptyStr) =>
        /\ MissingConfiguration(err)
        /\ result.kind = "nil"
        /\ httpReq = NoRequest
        /\ calls = 0

C5_Witness ==
    /\ Done("searchGoogle")
    /\ gs.apiKey # EmptyStr
    /\ gs.searchEngineID = EmptyStr
    /\ "query" \in DOMAIN args
    /\ args["query"] = Str(<<"q">>)
    /\ err.msg = "Search Engine ID is not configured"

\* C6: getApiStatus never returns an error and makes no network call; its text
\* is the API-key message when the API key is empty, the search-engine-id
\* message when only the search-engine id is empty, and the "properly
\* configured" message when both are set.
C6_ApiStatus ==
    Done("getApiStatus") =>
        /\ err = NoError
        /\ calls = 0
        /\ ~httpReq.sent
        /\ result.kind = "status"
        /\ (gs.apiKey = EmptyStr => result.msg = ApiKeyMessage)
        /\ (gs.apiKey # EmptyStr /\ gs.searchEngineID = EmptyStr =>
               result.msg = SearchEngineMessage)
        /\ (gs.apiKey # EmptyStr /\ gs.searchEngineID # EmptyStr =>
               result.msg = ConfiguredMessage)

C6_Witness ==
    /\ Done("getApiStatus")
    /\ gs.apiKey = EmptyStr
    /\ gs.searchEngineID = EmptyStr
    /\ args # <<>>
    /\ result.kind = "status"
    /\ result.msg = ApiKeyMessage

\* a response arrived and its body was read without a stream error
BodyRead ==
    resp.kind = "response" /\ err.msg # "failed to read response body"

Is2xx(status) == status >= 200 /\ status <= 299

C8_Original ==
    Done("searchGoogle") /\ BodyRead =>
        /\ (UpstreamError(err) <=> ~Is2xx(resp.status))
        /\ (UpstreamError(err) => err.status = resp.status /\ err.text = body)
        /\ (Is2xx(resp.status) => err.msg \in {"", "failed to parse API response"})

\* C8 amended: ... exactly when the status is not 200; every response with
\* status 200 goes on to parsing and formatting.
C8_Not200IsUpstreamError ==
    Done("searchGoogle") /\ BodyRead =>
        /\ (UpstreamError(err) <=> resp.status # 200)
        /\ (UpstreamError(err) =>
               /\ err.status = resp.status
               /\ err.text = body
               /\ result.kind = "nil")
        /\ (resp.status = 200 => err.msg \in {"", "failed to parse API response"})

C8_Witness ==
    /\ Done("searchGoogle")
    /\ resp.kind = "response"
    /\ resp.status = 201
    /\ resp.body = <<"{", "i", "}">>
    /\ err.msg = "API error"
    /\ err.status = 201

\* C9 as stated: for fetch and search the bytes kept of a response body number
\* min(body length, maxBodySize): never more than maxBodySize, exactly
\* maxBodySize for an oversized body, and reaching the cap is no read error.
C9_Original ==
    pc = "done" /\ tool \in {"fetchURL", "searchGoogle"} /\ resp.kind = "response" =>
        LET cap == ServerOf(tool).maxBodySize
        IN  /\ (BodyRead =>
                  /\ Len(body) = Min(Len(resp.body), cap)
                  /\ Len(body) <= cap
                  /\ (Len(resp.body) > cap => Len(body) = cap))
            /\ (~BodyRead => resp.readErr /\ Len(resp.body) < cap)

\* C9 amended: the bytes kept number min(body length, maxBodySize) when
\* maxBodySize >= 0 and zero when it is negative; they are a prefix of the body
\* sent; a read error is returned only when the stream itself breaks before the
\* cap is reached.
C9_BoundedBody ==
    pc = "done" /\ tool \in {"fetchURL", "searchGoogle"} /\ resp.kind = "response" =>
        LET cap == Max(ServerOf(tool).maxBodySize, 0)
        IN  /\ (BodyRead =>
                  /\ Len(body) = Min(Len(resp.body), cap)
                  /\ Len(body) <= cap
                  /\ (Len(resp.body) > cap => Len(body) = cap)
                  /\ body = SubSeq(resp.body, 1, Len(body)))
            /\ (~BodyRead => resp.readErr /\ Len(resp.body) < cap)

C9_Witness ==
    /\ pc = "done"
    /\ tool \in {"fetchURL", "searchGoogle"}
    /\ resp.kind = "response"
    /\ ServerOf(tool).maxBodySize = 2
    /\ Len(resp.body) > 2
    /\ Len(body) = 2
    /\ err.msg # "failed to read response body"

\* C10 as stated: a searchGoogle or fetchURL invocation whose upstream 2xx body
\* (for a search, a body that parses when it is whole) is longer than a
\* maxBodySize >= 0 still ends in a formatted success result built from the partial
\* body.
C10_Original ==
    /\ pc = "done"
    /\ tool \in {"fetchURL", "searchGoogle"}
    /\ resp.kind = "response"
    /\ ~resp.readErr
    /\ Is2xx(resp.status)
    /\ ServerOf(tool).maxBodySize >= 0
    /\ Len(resp.body) > ServerOf(tool).maxBodySize
    /\ (tool = "searchGoogle" => ParseApiResponse(resp.body).ok)
    => /\ err = NoError
       /\ result.kind \in {"fetch", "search"}

\* the timezone argument as the handler decodes it: missing, null and "" alike
TimezoneArg ==
    IF "timezone" \in DOMAIN args /\ args["timezone"].t = "string"
    THEN args["timezone"].s ELSE EmptyStr

\* the timeStr argument as the handler decodes it
TimeStrArg ==
    IF "timeStr" \in DOMAIN args /\ args["timeStr"].t = "string"
    THEN args["timeStr"].s ELSE EmptyStr

\* the timezone name the invocation asks for, the server default standing in
\* for an absent or empty argument
EffectiveTimezone == IF TimezoneArg # EmptyStr THEN TimezoneArg ELSE ts.defaultTimezone

\* the names time.LoadLocation knows
RecognizedNames == {EmptyStr, UTCName, LocalName, SeoulName, NewYorkName}

\* C11 as stated: the timezone string returned by convertTimeToTimezone is empty
\* exactly when the returned instant is the zero value, and both exactly when an
\* error is returned; a successful call returns a non-empty name and a non-zero
\* instant.
C11_Original ==
    Done("getCurrentTime") /\ conv.called
    => /\ (conv.timezone = EmptyStr) <=> IsZero(conv.time)
       /\ (conv.timezone = EmptyStr) <=> (conv.err # NoError)
       /\ (conv.err = NoError => conv.timezone # EmptyStr /\ ~IsZero(conv.time))

\* C11 (amended): convertTimeToTimezone returns the empty timezone string and
\* the zero instant whenever it returns an error, and it returns an error for
\* every unrecognized timezone; a successful call returns the timezone name it
\* resolved, which is empty only when the requested and the default timezone
\* are both empty, and an instant that is zero only when the source timestamp
\* itself denotes the zero instant.
C11_NoPartialResult ==
    Done("getCurrentTime") /\ conv.called
    => /\ (conv.err # NoError => conv.timezone = EmptyStr /\ conv.time = ZeroTime)
       /\ (EffectiveTimezone \notin RecognizedNames
             => conv.err.msg = InvalidTimezoneMessage)
       /\ (conv.err = NoError
             => /\ conv.timezone = EffectiveTimezone
                /\ (IsZero(conv.time)
                      => /\ TimeStrArg # EmptyStr
                         /\ ParseRFC3339(TimeStrArg).time.instant = 0))

C11_Witness ==
    /\ Done("getCurrentTime")
    /\ conv.called
    /\ TimezoneArg = InvalidName
    /\ ts.defaultTimezone = SeoulName
    /\ conv.err.msg = InvalidTimezoneMessage
    /\ conv.timezone = EmptyStr
    /\ IsZero(conv.time)
    /\ result = NilResult

\* the zone designator of a timestamp text says UTC
WrittenInUTC(text) == Offset(ParseRFC3339(text).time.loc, 0) = 0

C13_TimezoneUsed ==
    /\ Done("getCurrentTime")
    /\ WellTyped(args, TimeFieldTypes)
    /\ (TimeStrArg = EmptyStr \/ ParseRFC3339(TimeStrArg).ok)
    => LET name == IF TimezoneArg # EmptyStr THEN TimezoneArg ELSE ts.defaultTimezone
       IN  IF name \in RecognizedNames
           THEN /\ err = NoError
                /\ result.kind = "time"
                /\ result.timezone = name
                /\ conv.time.loc = LoadLocation(name).loc
                /\ ParseRFC3339(result.stamp).ok
                /\ Offset(ParseRFC3339(result.stamp).time.loc, 0)
                     = Offset(LoadLocation(name).loc, conv.time.instant)
           ELSE /\ err.msg = InvalidTimezoneMessage
                /\ err.text = name
                /\ result = NilResult

C13_Witness ==
    /\ Done("getCurrentTime")
    /\ TimezoneArg = NewYorkName
    /\ ts.defaultTimezone = SeoulName
    /\ err = NoError
    /\ result.kind = "time"
    /\ result.timezone = NewYorkName
    /\ conv.time.loc = NewYork

\* C14: the success text of getCurrentTime is "Current time (<tz>): <RFC3339>"
\* exactly when timeStr is absent or empty and "Converted time (<tz>): <RFC3339>"
\* exactly when timeStr is supplied; <tz> is the resolved timezone name and the
\* instant is rendered with that zone's offset.
C14_ResultText ==
    Done("getCurrentTime") /\ err = NoError
    => LET shown == ParseRFC3339(result.stamp)
       IN  /\ result.kind = "time"
           /\ (result.label = "Current time" <=> TimeStrArg = EmptyStr)
           /\ (result.label = "Converted time" <=> TimeStrArg # EmptyStr)
           /\ result.timezone = EffectiveTimezone
           /\ shown.ok
           /\ shown.time.instant = conv.time.instant
           /\ Offset(shown.time.loc, 0)
                = Offset(LoadLocation(result.timezone).loc, conv.time.instant)

C14_Witness ==
    /\ Done("getCurrentTime")
    /\ TimeStrArg = <<"1", "4", "Z">>
    /\ TimezoneArg = SeoulName
    /\ err = NoError
    /\ result.kind = "time"
    /\ result.label = "Converted time"
    /\ result.timezone = SeoulName
    /\ result.stamp = <<"2", "3", "+", "9">>

\* the items array of an upstream body, in upstream order
UpstreamItems == SelectSeq(resp.body, LAMBDA c : c \in {"i", "j"})

\* C15: a search report says "No results found." right after the summary line,
\* with no numbered entry, exactly when the upstream response has zero items;
\* otherwise it has exactly one numbered block per upstream item, numbered 1..n
\* in upstream order, each with that item's title, URL and snippet.
C15_ResultList ==
    Done("searchGoogle") /\ err = NoError
    => /\ result.kind = "search"
       /\ (result.noResults <=> Len(UpstreamItems) = 0)
       /\ (result.noResults => Len(result.entries) = 0)
       /\ Len(result.entries) = Len(UpstreamItems)
       /\ \A k \in 1..Len(UpstreamItems) :
             /\ result.entries[k].index = k
             /\ result.entries[k].title = <<"T", UpstreamItems[k]>>
             /\ result.entries[k].url = <<"L", UpstreamItems[k]>>
             /\ result.entries[k].snippet = <<"N", UpstreamItems[k]>>

C15_Witness ==
    /\ Done("searchGoogle")
    /\ err = NoError
    /\ result.kind = "search"
    /\ ~result.noResults
    /\ Len(result.entries) = 2
    /\ result.entries[1].title = <<"T", "i">>
    /\ result.entries[2].index = 2
    /\ result.entries[2].url = <<"L", "j">>

\* the headers argument as the handler decodes it
HeadersArg ==
    IF "headers" \in DOMAIN args /\ args["headers"].t = "string"
    THEN args["headers"].s ELSE EmptyStr

\* the members of a headers text that is a JSON object of string values
MembersOf(text) == SubSeq(text, 2, Len(text) - 1)

ObjectOfStrings(text) ==
    /\ Len(text) >= 2
    /\ text[1] = "{"
    /\ text[Len(text)] = "}"
    /\ \A k \in 1..Len(MembersOf(text)) : MembersOf(text)[k] \in {"X", "U", "u", "C"}

NoSpaceIn(m, f) ==
    f \in DOMAIN m /\ m[f].t = "string" => \A k \in 1..Len(m[f].s) : m[f].s[k] # " "

CustomValues(c) ==
    { HeaderValue(MembersOf(HeadersArg)[j]) :
        j \in { i \in 1..Len(MembersOf(HeadersArg)) :
                  HeaderKey(MembersOf(HeadersArg)[i]) = HeaderKey(c) } }

\* C17: custom headers are applied after User-Agent and Content-Type have been
\* set, so for any header key present in the custom headers (User-Agent and
\* Content-Type included) the value sent is the custom one.
C17_CustomHeadersLast ==
    Done("fetchURL") /\ httpReq.sent /\ ObjectOfStrings(HeadersArg)
    => \A k \in 1..Len(MembersOf(HeadersArg)) :
          LET c == MembersOf(HeadersArg)[k]
          IN  /\ HeaderKey(c) \in DOMAIN httpReq.header
              /\ httpReq.header[HeaderKey(c)] \in CustomValues(c)

C17_Witness ==
    /\ Done("fetchURL")
    /\ httpReq.sent
    /\ HeadersArg = <<"{", "U", "C", "}">>
    /\ "contentType" \in DOMAIN args
    /\ args["contentType"] = Str(<<"t">>)
    /\ httpReq.header["User-Agent"] = <<"c", "U">>
    /\ httpReq.header["Content-Type"] = <<"c", "C">>

\* C18 as stated: every outbound request of fetch and search carries a
\* User-Agent header equal to the server's configured user-agent, and every
\* search request also carries Accept: application/json.
C18_Original ==
    pc = "done" /\ httpReq.sent
    => /\ "User-Agent" \in DOMAIN httpReq.header
       /\ httpReq.header["User-Agent"] = ServerOf(tool).userAgent
       /\ (tool = "searchGoogle"
             => "Accept" \in DOMAIN httpReq.header
                /\ httpReq.header["Accept"] = AcceptJSON)

\* the custom headers of the invocation name User-Agent
NamesUserAgent ==
    /\ ObjectOfStrings(HeadersArg)
    /\ \E k \in 1..Len(MembersOf(HeadersArg)) : MembersOf(HeadersArg)[k] \in {"U", "u"}

\* C18 (amended): every outbound request of fetch and search carries a
\* User-Agent header; it equals the server's configured user-agent on every
\* search request, and on every fetch request whose custom headers do not name
\* User-Agent (a custom User-Agent replaces it); every search request also
\* carries Accept: application/json.
C18_UserAgent ==
    pc = "done" /\ httpReq.sent
    => /\ "User-Agent" \in DOMAIN httpReq.header
       /\ (tool = "searchGoogle"
             => /\ httpReq.header["User-Agent"] = gs.userAgent
                /\ "Accept" \in DOMAIN httpReq.header
                /\ httpReq.header["Accept"] = AcceptJSON)
       /\ (tool = "fetchURL" /\ ~NamesUserAgent
             => httpReq.header["User-Agent"] = fs.userAgent)
       /\ (tool = "fetchURL" /\ NamesUserAgent
             => httpReq.header["User-Agent"] \in {<<"c", "U">>, <<"c", "u">>})

C18_Witness ==
    /\ Done("searchGoogle")
    /\ httpReq.sent
    /\ calls = 1
    /\ httpReq.header["User-Agent"] = UserAgentSearch
    /\ httpReq.header["Accept"] = AcceptJSON

\* an argument is absent, null or the empty string
Unset(m, f) == f \notin DOMAIN m \/ m[f].t = "null" \/ m[f] = Str(EmptyStr)

\* C19 as stated: a searchGoogle invocation without (or with empty) language,
\* country or safeSearch sends the documented defaults: lr=lang_en, gl=us,
\* safe=active.
C19_Original ==
    Done("searchGoogle") /\ httpReq.sent
    => /\ (Unset(args, "language")
             => httpReq.query.lr = << <<"l", "a", "n", "g", "_", "e", "n">> >>)
       /\ (Unset(args, "country") => httpReq.query.gl = << <<"u", "s">> >>)
       /\ (Unset(args, "safeSearch") => httpReq.query.safe = "active")

\* the invocation gets through every check that precedes client.Do
PassesValidation ==
    \/ /\ tool = "fetchURL"
       /\ WellTyped(args, FetchFieldTypes)
       /\ UrlArgStartsHttp(args)
       /\ NoSpaceIn(args, "url")
       /\ NoSpaceIn(args, "method")
       /\ (HeadersArg = EmptyStr \/ HeadersArg = <<"n">> \/ ObjectOfStrings(HeadersArg))
    \/ /\ tool = "searchGoogle"
       /\ Configured(gs)
       /\ WellTyped(args, SearchFieldTypes)
       /\ ~Unset(args, "query")

\* C20: an invocation issues at most one outbound call: exactly one for a fetch
\* or search that passes validation, none for getCurrentTime, getApiStatus and
\* any invocation rejected before the call; a transport failure is returned
\* once, without a retry.
C20_SingleCall ==
    pc = "done"
    => /\ calls \in {0, 1}
       /\ (calls = 1 <=> PassesValidation)
       /\ (calls = 1 <=> httpReq.sent)
       /\ (calls = 1 <=> resp.kind # "none")
       /\ (tool \in {"getCurrentTime", "getApiStatus"} => calls = 0)
       /\ (resp.kind = "error"
             => calls = 1 /\ err.msg = "request failed" /\ result = NilResult)

C20_Witness ==
    /\ Done("fetchURL")
    /\ resp.kind = "error"
    /\ httpReq.sent
    /\ calls = 1
    /\ err.msg = "request failed"
    /\ result = NilResult

\* C21: after construction and after any sequence of handler invocations,
\* successful or failing, the configuration fields of each server (user-agent,
\* max-body-size, client timeout, API key, search-engine id, default timezone)
\* still equal the values its constructor was given: no step writes a server
\* field.
C21_ConfigurationKept == [][fs' = fs /\ gs' = gs /\ ts' = ts]_vars

C21_Witness ==
    /\ Done("fetchURL")
    /\ httpReq.sent
    /\ httpReq.header["User-Agent"] = <<"c", "U">>
    /\ fs = NewFetchServer(30, UserAgentFetch, 2)

\* the argument names a tool declares
KnownFields(t) ==
    CASE t = "fetchURL" -> {"url", "method", "body", "contentType", "headers"}
      [] t = "searchGoogle" ->
           {"query", "num", "start", "language", "country", "safeSearch"}
      [] t = "getCurrentTime" -> {"timezone", "timeStr"}
      [] OTHER -> {}

\* the required argument of a tool that the argument map lacks, if any
MissingRequired ==
    (IF tool = "fetchURL" THEN {"url"}
     ELSE IF tool = "searchGoogle" THEN {"query"} ELSE {}) \ DOMAIN args

UnknownFields == (DOMAIN args) \ KnownFields(tool)

\* the argument map without its unknown fields
KnownArgs == [f \in (DOMAIN args) \cap KnownFields(tool) |-> args[f]]

\* the invocation ended as outcome o says
EndedAs(o) ==
    /\ result = o.result
    /\ err = o.err
    /\ httpReq = o.httpReq
    /\ calls = o.calls
    /\ body = o.body

\* the invocation ended as the same handler ends on argument map m
EndsAsOn(m) ==
    CASE tool = "fetchURL" ->
           \E order \in RangeOrders(ParseHeaders(HeadersArg).members) :
              EndedAs(FetchURL(fs, m, resp, order))
      [] tool = "searchGoogle" -> EndedAs(GoogleSearch(gs, m, resp))
      [] tool = "getApiStatus" -> EndedAs(ApiStatus(gs, m))
      [] OTHER -> \E now \in Clock : EndedAs(GetCurrentTime(ts, m, Time(now, Local)))

ClassifiedFailure ==
    \/ tool = "fetchURL" /\ ~WellTyped(args, FetchFieldTypes)
    \/ tool = "fetchURL" /\ ~UrlArgStartsHttp(args)
    \/ tool = "fetchURL" /\ ~(NoSpaceIn(args, "url") /\ NoSpaceIn(args, "method"))
    \/ tool = "fetchURL" /\ HeadersArg \notin {EmptyStr, <<"n">>}
                         /\ ~ObjectOfStrings(HeadersArg)
    \/ tool = "searchGoogle" /\ ~Configured(gs)
    \/ tool = "searchGoogle" /\ ~WellTyped(args, SearchFieldTypes)
    \/ tool = "searchGoogle" /\ Unset(args, "query")
    \/ tool = "searchGoogle" /\ resp.kind = "response" /\ resp.status # 200
    \/ tool = "getCurrentTime" /\ ~WellTyped(args, TimeFieldTypes)
    \/ tool = "getCurrentTime" /\ EffectiveTimezone \notin RecognizedNames
    \/ tool = "getCurrentTime" /\ TimeStrArg # EmptyStr /\ ~ParseRFC3339(TimeStrArg).ok
    \/ resp.kind = "error"
    \/ resp.kind = "response" /\ resp.readErr
                              /\ Len(resp.body) < ServerOf(tool).maxBodySize

StringArg(f) ==
    IF f \in DOMAIN args /\ args[f].t = "string" THEN args[f].s ELSE EmptyStr

\* the custom headers of the invocation name Content-Type
NamesContentType ==
    /\ ObjectOfStrings(HeadersArg)
    /\ \E k \in 1..Len(MembersOf(HeadersArg)) : MembersOf(HeadersArg)[k] = "C"

\* C24: in the outbound fetch call the method is GET when the method argument is
\* absent or empty; a body is attached if and only if the body argument is
\* non-empty; and, absent custom headers, Content-Type is the contentType
\* argument when that is non-empty, application/json when contentType is empty,
\* the body is non-empty and the method is exactly POST, PUT or PATCH, and is
\* unset in every other case.
C24_FetchRequest ==
    Done("fetchURL") /\ httpReq.sent
    => /\ httpReq.method
            = (IF StringArg("method") = EmptyStr THEN <<"G", "E", "T">>
               ELSE StringArg("method"))
       /\ httpReq.body
            = (IF StringArg("body") = EmptyStr THEN <<>> ELSE << StringArg("body") >>)
       /\ (~NamesContentType
             => IF StringArg("contentType") # EmptyStr
                THEN /\ "Content-Type" \in DOMAIN httpReq.header
                     /\ httpReq.header["Content-Type"] = StringArg("contentType")
                ELSE IF /\ StringArg("body") # EmptyStr
                        /\ StringArg("method")
                              \in { <<"P", "O", "S", "T">>, <<"P", "U", "T">>,
                                    <<"P", "A", "T", "C", "H">> }
                THEN /\ "Content-Type" \in DOMAIN httpReq.header
                     /\ httpReq.header["Content-Type"] = JSONContentType
                ELSE "Content-Type" \notin DOMAIN httpReq.header)

C24_Witness ==
    /\ Done("fetchURL")
    /\ httpReq.sent
    /\ StringArg("method") = MethodPUT
    /\ StringArg("body") = <<"b">>
    /\ StringArg("contentType") = EmptyStr
    /\ httpReq.method = MethodPUT
    /\ httpReq.body = << <<"b">> >>
    /\ httpReq.header["Content-Type"] = JSONContentType

\* a timestamp text is RFC 3339: a reading and "Z" or an offset of at most 23
\* hours
StrictRFC3339(text) ==
    LET k == Designator(text)
        rest == SubSeq(text, k + 1, Len(text))
    IN  /\ k > 1
        /\ AllDigits(SubSeq(text, 1, k - 1))
        /\ IF text[k] = "Z" THEN rest = <<>> ELSE AllDigits(rest) /\ Atoi(rest) <= 23

StatusNames(msg) ==
    CASE msg = ApiKeyMessage -> "apiKey"
      [] msg = SearchEngineMessage -> "searchEngineID"
      [] OTHER -> "none"

\* the credential a search error reports as missing
ErrorNames(e) ==
    CASE e.msg = "API key is not configured" -> "apiKey"
      [] e.msg = "Search Engine ID is not configured" -> "searchEngineID"
      [] OTHER -> "none"

\* C28: on one search server getApiStatus and searchGoogle agree about the
\* configuration: getApiStatus says "properly configured" if and only if
\* searchGoogle does not fail with a configuration error, and otherwise both
\* name the same missing credential, the API key before the search-engine id
\* when both are empty; searchGoogle makes this check before it decodes or
\* validates any argument.
C28_StatusAgrees ==
    /\ (Done("searchGoogle")
          => LET status == ApiStatus(gs, <<>>).result.msg
             IN  /\ (status = ConfiguredMessage <=> ~MissingConfiguration(err))
                 /\ ErrorNames(err) = StatusNames(status)
                 /\ (gs.apiKey = EmptyStr /\ gs.searchEngineID = EmptyStr
                       => ErrorNames(err) = "apiKey")
                 /\ (~Configured(gs)
                       => MissingConfiguration(err) /\ params = NoParams))
    /\ (Done("getApiStatus")
          => \A m \in SearchArgMaps :
                LET e == GoogleSearch(gs, m, NoResponse).err
                IN  /\ (result.msg = ConfiguredMessage <=> ~MissingConfiguration(e))
                    /\ ErrorNames(e) = StatusNames(result.msg))

C28_Witness ==
    /\ Done("searchGoogle")
    /\ gs.apiKey = EmptyStr
    /\ gs.searchEngineID = EmptyStr
    /\ "query" \in DOMAIN args
    /\ args["query"].t = "number"
    /\ err.msg = "API key is not configured"
    /\ ApiStatus(gs, <<>>).result.msg = ApiKeyMessage

\* C26 as stated: whatever -timeout the server was constructed with, a fetchURL
\* or searchGoogle invocation waiting in its outbound call eventually returns
C26_Original == (pc = "calling") ~> (pc = "done")

\* the part of C26 the code keeps: on a server constructed with a positive
\* timeout, an invocation waiting in its outbound call eventually returns
BoundedWhenPositive ==
    (pc = "calling" /\ ServerOf(tool).timeout > 0) ~> (pc = "done")

\* the first invocation holds what its handler makes, on the server as it is, of
\* its own arguments and (once client.Do returned) its own answer
OwnOutcome ==
    /\ pc = "calling"
       => \E o \in Handled(tool, args, TransportFailure) :
             httpReq = o.httpReq /\ params = o.params
    /\ pc = "done" /\ tool \in {"fetchURL", "searchGoogle"}
       => \E o \in Handled(tool, args, resp) :
             /\ params = o.params
             /\ httpReq = o.httpReq
             /\ body = o.body
             /\ result = o.result
             /\ err = o.err

\* and so does the second one
PeerOwnOutcome ==
    /\ peer.pc = "calling"
       => \E o \in Handled(peer.tool, peer.args, TransportFailure) :
             peer.httpReq = o.httpReq
    /\ peer.pc = "done"
       => \E o \in Handled(peer.tool, peer.args, peer.resp) :
             /\ peer.httpReq = o.httpReq
             /\ peer.result = o.result
             /\ peer.err = o.err

\* C27: under any interleaving of two invocations on one server, each holds the
\* request and the outcome it would have alone with its arguments, the server's
\* configuration and its upstream answer, and the server is as constructed
C27_Isolation ==
    /\ OwnOutcome
    /\ PeerOwnOutcome
    /\ fs.built => fs = NewFetchServer(30, UserAgentFetch, MaxCap)
    /\ gs.built => gs = NewGoogleSearchServer(30, UserAgentSearch, MaxCap, <<"k">>, <<"k">>)

\* the second invocation ran from start to end with a User-Agent of its own while
\* the first one, sent with the configured User-Agent, was waiting for its
\* answer, and the first one then got a different answer
C27_Witness ==
    /\ Done("fetchURL")
    /\ httpReq.sent
    /\ httpReq.header["User-Agent"] = UserAgentFetch
    /\ resp.kind = "response"
    /\ resp.status = 404
    /\ peer.pc = "done"
    /\ peer.tool = "fetchURL"
    /\ peer.httpReq.sent
    /\ peer.httpReq.header["User-Agent"] # UserAgentFetch
    /\ peer.resp.kind = "response"
    /\ peer.resp.status = 200
    /\ peer.result # result

====
